---- MODULE Spec2Model ----
(***************************************************************************)
(* The data model of app/models.py: the persistent entities (SQLModel      *)
(* classes declared with table=True), the transfer shapes (table=False),   *)
(* and the relational constraints the entities declare.                    *)
(*                                                                         *)
(* Two construction regimes appear in the file and are kept apart here:    *)
(*                                                                         *)
(*  - a class declared table=False is a validated model: building one runs *)
(*    the Field constraints (max_length, ge, le, enumeration membership)   *)
(*    and raises ValidationError when one fails;                           *)
(*  - a class declared table=True is a mapped table row: SQLModel builds   *)
(*    it without running the Field validators, so the Field constraints    *)
(*    reach the stored data only through what the table definition itself  *)
(*    carries: primary_key, unique and foreign_key become relational       *)
(*    constraints, which the engine enforces; max_length becomes a VARCHAR(n) column and an Enum      *)
(*    annotation an enumerated column, both enforced by some engines and   *)
(*    not by others; ge / le become nothing.                               *)
(*                                                                         *)
(* Every table is a sequence of rows in insertion order; ids are assigned  *)
(* by the engine (id = None on construction).  Only the fields the         *)
(* properties below read are kept (timestamps, descriptions, colours and   *)
(* the denormalised response shapes are left out).                         *)
(***************************************************************************)
EXTENDS Integers, Sequences, FiniteSets, TLC

VARIABLES
    strictColumns,      \* the engine enforces VARCHAR(n) and enumerated columns
    folders,            \* table "folders"
    tags,               \* table "tags"
    notes,              \* table "notes"
    note_tags,          \* table "note_tags"
    note_connections,   \* table "note_connections"
    ai_operations,      \* table "ai_operations"
    last                \* what the last operation was given and how it ended

vars == <<strictColumns, folders, tags, notes, note_tags, note_connections,
          ai_operations, last>>

(***************************************************************************)
(* Bounds of the model.                                                    *)
(***************************************************************************)
MaxFolders == 2
MaxTags == 2
MaxNotes == 2
MaxLinks == 4
MaxConnections == 2
MaxAIOperations == 1
MaxMetaNotes == 1
MaxKeys == 2

(***************************************************************************)
(* Python values.  Optional[x] is << >> for None and <<x>> for a value.    *)
(* A text is a character repeated n times, so that its length can pass a   *)
(* max_length bound without enumerating characters.                        *)
(***************************************************************************)
None == << >>
Some(x) == <<x>>
IsNone(o) == o = << >>
Val(o) == o[1]

Str(c, n) == <<c, n>>
StrLen(s) == s[2]

(***************************************************************************)
(* Field(max_length=...) as written in the file.                           *)
(***************************************************************************)
Folder_name_max_length == 255
Tag_name_max_length == 100
Note_title_max_length == 500
SearchRequest_query_max_length == 1000

(* A validated model's max_length check. *)
MaxLengthOk(s, bound) == StrLen(s) <= bound

(***************************************************************************)
(* Relational constraints carried by the table definitions.                *)
(***************************************************************************)
Ids(table) == {table[i].id : i \in 1..Len(table)}

(* foreign_key="<table>.id": a present reference names a stored row. *)
ForeignKeyOk(ref, table) == IsNone(ref) \/ Val(ref) \in Ids(table)

(* A VARCHAR(n) column: an engine that enforces it refuses a longer text. *)
ColumnLengthOk(s, bound) == strictColumns => StrLen(s) <= bound

(* The id the engine gives the next row of a table: ids are taken to be
   consecutive, and nothing is deleted. *)
NextId(table) == Len(table) + 1

(***************************************************************************)
(* Folder, FolderCreate, FolderUpdate.                                     *)
(***************************************************************************)
FolderNames == {Str("W", 4), Str("P", 8), Str("W", 256)}
FolderRefs == {None} \cup {Some(i) : i \in 1..(MaxFolders + 1)}

(* FolderCreate(name=..., parent_id=...): only name is constrained. *)
FolderCreateValid(name, parent_id) == MaxLengthOk(name, Folder_name_max_length)

(* FolderUpdate(...): u.set is the set of fields the caller gave. *)
FolderUpdateValid(u) ==
    ("name" \in u.set /\ ~IsNone(u.name)) => MaxLengthOk(Val(u.name), Folder_name_max_length)

(* What the folders table accepts as a row: name VARCHAR(255), parent_id a
   foreign key to folders.id.  Nothing makes name unique. *)
FolderColumnsOk(row) == ColumnLengthOk(row.name, Folder_name_max_length)

(* The folders table without its foreign key. *)
FolderParentOk_NoForeignKey(row, table) == TRUE

FolderParentOk(row, table) == ForeignKeyOk(row.parent_id, table)

FolderRowOk(row, table) == FolderColumnsOk(row) /\ FolderParentOk(row, table)

(* Folder(name=..., parent_id=...) added to the session and committed. *)
FolderInsert(op, name, parent_id) ==
    LET row == [id |-> NextId(folders), name |-> name, parent_id |-> parent_id]
        ok == FolderRowOk(row, Append(folders, row))
    IN  /\ folders' = IF ok THEN Append(folders, row) ELSE folders
        /\ last' = [op |-> op, name |-> name, parent_id |-> parent_id,
                    outcome |-> IF ok THEN "ok"
                                ELSE IF ~FolderColumnsOk(row) THEN "DataError"
                                ELSE "IntegrityError"]

(* A folder created from a FolderCreate: validation, then the insert. *)
CreateFolder(names, refs) ==
    \E name \in names, parent_id \in refs :
        /\ Len(folders) < MaxFolders
        /\ IF FolderCreateValid(name, parent_id)
           THEN FolderInsert("CreateFolder", name, parent_id)
           ELSE /\ folders' = folders
                /\ last' = [op |-> "CreateFolder", name |-> name,
                            parent_id |-> parent_id, outcome |-> "ValidationError"]
        /\ UNCHANGED <<strictColumns, tags, notes, note_tags, note_connections,
                       ai_operations>>

(* A Folder row built directly (table=True: no validation) and committed. *)
AddFolder(names, refs) ==
    \E name \in names, parent_id \in refs :
        /\ Len(folders) < MaxFolders
        /\ FolderInsert("AddFolder", name, parent_id)
        /\ UNCHANGED <<strictColumns, tags, notes, note_tags, note_connections,
                       ai_operations>>

(* A FolderUpdate: each field either left out (it then holds its default,
   None) or given; set is the set of fields given. *)
FolderUpdate(name, parent_id, given) ==
    [name |-> name, parent_id |-> parent_id,
     set |-> (IF IsNone(name) THEN {} ELSE {"name"}) \cup given]

FolderNameInputs == {None} \cup {Some(x) : x \in FolderNames}

(* The given fields of a FolderUpdate written onto a stored row. *)
FolderApply(row, u) ==
    [row EXCEPT !.name = IF "name" \in u.set /\ ~IsNone(u.name) THEN Val(u.name) ELSE @,
                !.parent_id = IF "parent_id" \in u.set THEN u.parent_id ELSE @]

(* A stored folder updated from a FolderUpdate: validation, the given fields
   set on the row, commit. *)
UpdateFolder ==
    \E i \in 1..Len(folders), name \in FolderNameInputs, parent_id \in FolderRefs,
       given \in {{}, {"parent_id"}} :
        /\ (given = {} => IsNone(parent_id))
        /\ LET u == FolderUpdate(name, parent_id, given)
               row == FolderApply(folders[i], u)
               ok == FolderUpdateValid(u) /\ FolderRowOk(row, folders)
           IN  /\ folders' = IF ok THEN [folders EXCEPT ![i] = row] ELSE folders
               /\ last' = [op |-> "UpdateFolder", id |-> folders[i].id, update |-> u,
                           outcome |-> IF ~FolderUpdateValid(u) THEN "ValidationError"
                                       ELSE IF ok THEN "ok"
                                       ELSE IF ~FolderColumnsOk(row) THEN "DataError"
                                       ELSE "IntegrityError"]
        /\ UNCHANGED <<strictColumns, tags, notes, note_tags, note_connections,
                       ai_operations>>

(***************************************************************************)
(* Tag, TagCreate, TagUpdate.                                              *)
(***************************************************************************)
TagNames == {Str("u", 6), Str("t", 4), Str("u", 101)}
ShortTagNames == {Str("u", 6), Str("t", 4)}

TagCreateValid(name) == MaxLengthOk(name, Tag_name_max_length)

TagUpdateValid(name) == IsNone(name) \/ MaxLengthOk(Val(name), Tag_name_max_length)

(* Tag.name without unique=True. *)
TagNameUnique_NotDeclared(row, table) == TRUE

(* unique=True on Tag.name: no other stored tag has the row's name. *)
TagNameUnique(row, table) ==
    \A i \in 1..Len(table) : table[i].id # row.id => table[i].name # row.name

TagColumnsOk(row) == ColumnLengthOk(row.name, Tag_name_max_length)

TagRowOk(row, table) == TagColumnsOk(row) /\ TagNameUnique(row, table)

(* Tag(name=...) added to the session and committed. *)
TagInsert(op, name) ==
    LET row == [id |-> NextId(tags), name |-> name]
        ok == TagRowOk(row, tags)
    IN  /\ tags' = IF ok THEN Append(tags, row) ELSE tags
        /\ last' = [op |-> op, name |-> name,
                    outcome |-> IF ok THEN "ok"
                                ELSE IF ~TagColumnsOk(row) THEN "DataError"
                                ELSE "IntegrityError"]

(* A tag created from a TagCreate: validation, then the insert. *)
CreateTag(names) ==
    \E name \in names :
        /\ Len(tags) < MaxTags
        /\ IF TagCreateValid(name)
           THEN TagInsert("CreateTag", name)
           ELSE /\ tags' = tags
                /\ last' = [op |-> "CreateTag", name |-> name,
                            outcome |-> "ValidationError"]
        /\ UNCHANGED <<strictColumns, folders, notes, note_tags, note_connections,
                       ai_operations>>

(* A Tag row built directly (table=True: no validation) and committed. *)
AddTag(names) ==
    \E name \in names :
        /\ Len(tags) < MaxTags
        /\ TagInsert("AddTag", name)
        /\ UNCHANGED <<strictColumns, folders, notes, note_tags, note_connections,
                       ai_operations>>

(* A stored tag renamed from a TagUpdate(name=...): validation, the name set
   on the row, commit. *)
UpdateTag(names) ==
    \E i \in 1..Len(tags), name \in names :
        /\ LET row == [tags[i] EXCEPT !.name = name]
               ok == TagUpdateValid(Some(name)) /\ TagRowOk(row, tags)
           IN  /\ tags' = IF ok THEN [tags EXCEPT ![i] = row] ELSE tags
               /\ last' = [op |-> "UpdateTag", id |-> tags[i].id, name |-> name,
                           outcome |-> IF ~TagUpdateValid(Some(name)) THEN "ValidationError"
                                       ELSE IF ok THEN "ok"
                                       ELSE IF ~TagColumnsOk(row) THEN "DataError"
                                       ELSE "IntegrityError"]
        /\ UNCHANGED <<strictColumns, folders, notes, note_tags, note_connections,
                       ai_operations>>

(***************************************************************************)
(* JSON columns (sa_column=Column(JSON)).  A Python dict is a sequence of  *)
(* <<key, value>> pairs with distinct keys, in insertion order; two dicts  *)
(* are equal when they hold the same pairs.  A key or value is <<type,     *)
(* text>>, tagged with its Python type.  The column stores the json.dumps text, here the sequence  *)
(* of its members, and a load runs json.loads on it.                       *)
(***************************************************************************)
PyKeys == {<<"str", "k">>, <<"str", "1">>, <<"int", "1">>}
PyValues == {<<"str", "v">>, <<"list", "v">>,
             <<"tuple", "v">>, <<"datetime", "v">>}

EmptyDict == << >>

HasKey(d, k) == \E i \in 1..Len(d) : d[i][1] = k

(* The dicts of n entries. *)
RECURSIVE DictsOfSize(_)
DictsOfSize(n) ==
    IF n = 0 THEN {EmptyDict}
    ELSE UNION {{Append(d, <<k, v>>) : k \in {x \in PyKeys : ~HasKey(d, x)},
                                        v \in PyValues} :
                d \in DictsOfSize(n - 1)}

Dicts == UNION {DictsOfSize(n) : n \in 0..MaxKeys}

DictEq(a, b) == {a[i] : i \in 1..Len(a)} = {b[i] : i \in 1..Len(b)}

(* json.dumps writes an int key as its decimal text. *)
JsonKey(k) == <<"str", k[2]>>

(* An encoder that writes every value as its text (json.dumps(default=str)
   applied to all of them). *)
JsonValue_AsText(x) == <<"str", x[2]>>

(* json.dumps writes a tuple as an array, which json.loads reads as a list. *)
JsonValue(x) == IF x[1] = "tuple" THEN <<"list", x[2]>> ELSE x

(* json.dumps raises TypeError on a value it has no encoding for. *)
JsonSerializable(d) == \A i \in 1..Len(d) : d[i][2][1] # "datetime"

JsonDumps(d) == [i \in 1..Len(d) |-> <<JsonKey(d[i][1]), JsonValue(d[i][2])>>]

(* dict[k] = v: a key already present keeps its place and takes the value. *)
DictSet(d, k, v) ==
    IF HasKey(d, k)
    THEN [i \in 1..Len(d) |-> IF d[i][1] = k THEN <<k, v>> ELSE d[i]]
    ELSE Append(d, <<k, v>>)

RECURSIVE JsonLoadsFrom(_, _)
JsonLoadsFrom(doc, d) ==
    IF doc = << >> THEN d
    ELSE JsonLoadsFrom(Tail(doc), DictSet(d, Head(doc)[1], Head(doc)[2]))

JsonLoads(doc) == JsonLoadsFrom(doc, EmptyDict)

(***************************************************************************)
(* NoteStatus, Note, NoteCreate, NoteUpdate.                               *)
(***************************************************************************)
NoteStatus == {"active", "archived", "deleted"}

Note_status_default == "active"
Note_note_metadata_default == EmptyDict

NoteTitles == {Str("P", 4), Str("P", 500), Str("P", 501)}
PlainTitle == {Str("P", 4)}
LeftOut == {None}
MetadataInputs == {None} \cup {Some(d) : d \in Dicts}
StatusInputs == {None, Some("archived"), Some("deleted"), Some("bogus")}

(* A field annotated with the NoteStatus enumeration, on a validated model. *)
NoteStatusValid(status) == IsNone(status) \/ Val(status) \in NoteStatus

NoteCreateValid(title) == MaxLengthOk(title, Note_title_max_length)

(* NoteUpdate(title=..., status=...): a field left out is None. *)
NoteUpdateValid(title, status) ==
    /\ IsNone(title) \/ MaxLengthOk(Val(title), Note_title_max_length)
    /\ NoteStatusValid(status)

(* Note(...): table=True, so the arguments are taken as they are and a field
   left out takes its default. *)
NoteInit(title, status, note_metadata) ==
    [title |-> title,
     status |-> IF IsNone(status) THEN Note_status_default ELSE Val(status),
     note_metadata |-> IF IsNone(note_metadata) THEN Note_note_metadata_default
                       ELSE Val(note_metadata)]

(* What the notes table accepts as a row: title VARCHAR(500), status an
   enumerated column. *)
NoteColumnsOk(row) ==
    /\ ColumnLengthOk(row.title, Note_title_max_length)
    /\ strictColumns => row.status \in NoteStatus

(* A Note added to the session and committed. *)
NoteInsert(op, title, status, note_metadata) ==
    LET obj == NoteInit(title, status, note_metadata)
        serial == JsonSerializable(obj.note_metadata)
        ok == serial /\ NoteColumnsOk(obj)
        row == [id |-> NextId(notes), title |-> obj.title, status |-> obj.status,
                note_metadata |-> JsonDumps(obj.note_metadata)]
    IN  /\ notes' = IF ok THEN Append(notes, row) ELSE notes
        /\ last' = [op |-> op, title |-> title, status |-> status,
                    note_metadata |-> note_metadata,
                    outcome |-> IF ok THEN "ok"
                                ELSE IF ~serial THEN "TypeError"
                                ELSE "DataError"]

(* A note created from a NoteCreate: validation, then the insert of
   Note(title=...). *)
CreateNote(cap, titles) ==
    \E title \in titles :
        /\ Len(notes) < cap
        /\ IF NoteCreateValid(title)
           THEN NoteInsert("CreateNote", title, None, None)
           ELSE /\ notes' = notes
                /\ last' = [op |-> "CreateNote", title |-> title, status |-> None,
                            note_metadata |-> None, outcome |-> "ValidationError"]
        /\ UNCHANGED <<strictColumns, folders, tags, note_tags, note_connections,
                       ai_operations>>

(* A Note row built directly and committed. *)
AddNote(cap, titles, statuses, metadatas) ==
    \E title \in titles, status \in statuses, note_metadata \in metadatas :
        /\ Len(notes) < cap
        /\ NoteInsert("AddNote", title, status, note_metadata)
        /\ UNCHANGED <<strictColumns, folders, tags, note_tags, note_connections,
                       ai_operations>>

(* The given fields of a NoteUpdate written onto a stored row. *)
NoteApply(row, title, status) ==
    [row EXCEPT !.title = IF IsNone(title) THEN @ ELSE Val(title),
                !.status = IF IsNone(status) THEN @ ELSE Val(status)]

(* A stored note updated from a NoteUpdate: validation, the given fields set
   on the row, commit. *)
UpdateNote(titles, statuses) ==
    \E i \in 1..Len(notes),
       title \in {None} \cup {Some(t) : t \in titles},
       status \in statuses :
        /\ LET row == NoteApply(notes[i], title, status)
               valid == NoteUpdateValid(title, status)
               ok == valid /\ NoteColumnsOk(row)
           IN  /\ notes' = IF ok THEN [notes EXCEPT ![i] = row] ELSE notes
               /\ last' = [op |-> "UpdateNote", id |-> notes[i].id, title |-> title,
                           status |-> status,
                           outcome |-> IF ~valid THEN "ValidationError"
                                       ELSE IF ok THEN "ok"
                                       ELSE "DataError"]
        /\ UNCHANGED <<strictColumns, folders, tags, note_tags, note_connections,
                       ai_operations>>

(* The note just stored read back from the table in a fresh session: the JSON
   column is decoded, the enumerated column is looked up in NoteStatus. *)
ReloadNote ==
    /\ last.op \in {"AddNote", "CreateNote"}
    /\ last.outcome = "ok"
    /\ LET row == notes[Len(notes)]
       IN  last' = [op |-> "ReloadNote", id |-> row.id,
                    given |-> last.note_metadata,
                    note_metadata |-> JsonLoads(row.note_metadata),
                    outcome |-> IF row.status \in NoteStatus THEN "ok"
                                ELSE "LookupError"]
    /\ UNCHANGED <<strictColumns, folders, tags, notes, note_tags, note_connections,
                   ai_operations>>

(***************************************************************************)
(* NoteTag: the association table of Note.tags / Tag.notes.                *)
(***************************************************************************)
(* The association table keyed by nothing. *)
NoteTagPrimaryKeyOk_NoKey(row, table) == TRUE

(* primary_key=True on both note_id and tag_id: the pair is the key. *)
NoteTagPrimaryKeyOk(row, table) ==
    \A i \in 1..Len(table) :
        ~(table[i].note_id = row.note_id /\ table[i].tag_id = row.tag_id)

NoteTagRowOk(row, table) ==
    /\ NoteTagPrimaryKeyOk(row, table)
    /\ ForeignKeyOk(Some(row.note_id), notes)
    /\ ForeignKeyOk(Some(row.tag_id), tags)

(* A tag attached to a note: NoteTag(note_id=..., tag_id=...) committed. *)
AttachTag ==
    \E note_id \in 1..(MaxNotes + 1), tag_id \in 1..(MaxTags + 1) :
        /\ Len(note_tags) < MaxLinks
        /\ LET row == [note_id |-> note_id, tag_id |-> tag_id]
               ok == NoteTagRowOk(row, note_tags)
           IN  /\ note_tags' = IF ok THEN Append(note_tags, row) ELSE note_tags
               /\ last' = [op |-> "AttachTag", note_id |-> note_id, tag_id |-> tag_id,
                           outcome |-> IF ok THEN "ok" ELSE "IntegrityError"]
        /\ UNCHANGED <<strictColumns, folders, tags, notes, note_connections,
                       ai_operations>>

(***************************************************************************)
(* NoteConnection, NoteConnectionCreate.  A strength is counted in tenths, *)
(* so that 10 is 1.0.                                                      *)
(***************************************************************************)
NoteConnection_strength_ge == 0
NoteConnection_strength_le == 10
NoteConnection_strength_default == 10

StrengthInputs == {None, Some(-1), Some(0), Some(5), Some(10), Some(11)}

(* NoteConnectionCreate(...): strength is Field(ge=0.0, le=1.0). *)
NoteConnectionCreateValid(strength) ==
    \/ IsNone(strength)
    \/ /\ Val(strength) >= NoteConnection_strength_ge
       /\ Val(strength) <= NoteConnection_strength_le

(* NoteConnection(...): table=True, so the arguments are taken as they are. *)
NoteConnectionInit(source_note_id, target_note_id, strength) ==
    [source_note_id |-> source_note_id, target_note_id |-> target_note_id,
     strength |-> IF IsNone(strength) THEN NoteConnection_strength_default
                  ELSE Val(strength)]

(* What the note_connections table accepts as a row: both ends are foreign
   keys to notes.id; strength is a FLOAT column without a check. *)
NoteConnectionRowOk(row) ==
    /\ ForeignKeyOk(Some(row.source_note_id), notes)
    /\ ForeignKeyOk(Some(row.target_note_id), notes)

(* A NoteConnection added to the session and committed. *)
NoteConnectionInsert(op, source_note_id, target_note_id, strength) ==
    LET obj == NoteConnectionInit(source_note_id, target_note_id, strength)
        ok == NoteConnectionRowOk(obj)
        row == [id |-> NextId(note_connections),
                source_note_id |-> obj.source_note_id,
                target_note_id |-> obj.target_note_id,
                strength |-> obj.strength]
    IN  /\ note_connections' = IF ok THEN Append(note_connections, row)
                               ELSE note_connections
        /\ last' = [op |-> op, source_note_id |-> source_note_id,
                    target_note_id |-> target_note_id, strength |-> strength,
                    outcome |-> IF ok THEN "ok" ELSE "IntegrityError"]

(* A connection created from a NoteConnectionCreate: validation, then the
   insert. *)
CreateNoteConnection ==
    \E source_note_id \in 1..MaxNotes, target_note_id \in 1..(MaxNotes + 1),
       strength \in StrengthInputs :
        /\ Len(note_connections) < MaxConnections
        /\ IF NoteConnectionCreateValid(strength)
           THEN NoteConnectionInsert("CreateNoteConnection", source_note_id,
                                     target_note_id, strength)
           ELSE /\ note_connections' = note_connections
                /\ last' = [op |-> "CreateNoteConnection",
                            source_note_id |-> source_note_id,
                            target_note_id |-> target_note_id, strength |-> strength,
                            outcome |-> "ValidationError"]
        /\ UNCHANGED <<strictColumns, folders, tags, notes, note_tags, ai_operations>>

(* A NoteConnection row built directly and committed. *)
AddNoteConnection ==
    \E source_note_id \in 1..MaxNotes, target_note_id \in 1..(MaxNotes + 1),
       strength \in StrengthInputs :
        /\ Len(note_connections) < MaxConnections
        /\ NoteConnectionInsert("AddNoteConnection", source_note_id, target_note_id,
                                strength)
        /\ UNCHANGED <<strictColumns, folders, tags, notes, note_tags, ai_operations>>

(***************************************************************************)
(* AIOperationType, AIOperation.                                           *)
(***************************************************************************)
AIOperationType == {"summarize", "generate_ideas", "suggest_connections", "answer_question"}

AIOperation_success_default == TRUE
AIOperation_result_default == EmptyDict

OperationTypeInputs == {"summarize", "answer_question", "bogus"}
ResultInputs == {None, Some(<<<<<<"str", "k">>, <<"str", "v">>>>>>)}
SuccessInputs == {None, Some(TRUE), Some(FALSE)}
ErrorMessageInputs == {None, Some(Str("e", 9))}

(* AIOperation(...): table=True, so the arguments are taken as they are and a
   field left out takes its default. *)
AIOperationInit(note_id, operation_type, result, success, error_message) ==
    [note_id |-> note_id,
     operation_type |-> operation_type,
     result |-> IF IsNone(result) THEN AIOperation_result_default ELSE Val(result),
     success |-> IF IsNone(success) THEN AIOperation_success_default ELSE Val(success),
     error_message |-> error_message]

(* A table that refuses the record of a failed operation. *)
AIOperationColumnsOk_FailureRefused(row) ==
    /\ strictColumns => row.operation_type \in AIOperationType
    /\ row.success

(* What the ai_operations table accepts as a row: operation_type is an
   enumerated column; success and error_message are unconstrained. *)
AIOperationColumnsOk(row) ==
    strictColumns => row.operation_type \in AIOperationType

(* An AIOperation added to the session and committed. *)
AddAIOperation ==
    \E note_id \in 1..(MaxNotes + 1), operation_type \in OperationTypeInputs,
       result \in ResultInputs, success \in SuccessInputs,
       error_message \in ErrorMessageInputs :
        /\ Len(ai_operations) < MaxAIOperations
        /\ LET obj == AIOperationInit(note_id, operation_type, result, success,
                                      error_message)
               serial == JsonSerializable(obj.result)
               columns == AIOperationColumnsOk(obj)
               ok == serial /\ columns /\ ForeignKeyOk(Some(obj.note_id), notes)
               row == [id |-> NextId(ai_operations), note_id |-> obj.note_id,
                       operation_type |-> obj.operation_type,
                       result |-> JsonDumps(obj.result), success |-> obj.success,
                       error_message |-> obj.error_message]
           IN  /\ ai_operations' = IF ok THEN Append(ai_operations, row)
                                   ELSE ai_operations
               /\ last' = [op |-> "AddAIOperation", note_id |-> note_id,
                           operation_type |-> operation_type, result |-> result,
                           success |-> success, error_message |-> error_message,
                           outcome |-> IF ok THEN "ok"
                                       ELSE IF ~serial THEN "TypeError"
                                       ELSE IF ~columns THEN "DataError"
                                       ELSE "IntegrityError"]
        /\ UNCHANGED <<strictColumns, folders, tags, notes, note_tags, note_connections>>

(***************************************************************************)
(* SearchRequest.                                                          *)
(***************************************************************************)
SearchRequest_limit_default == 50
SearchRequest_limit_ge == 1
SearchRequest_limit_le == 1000
SearchRequest_offset_default == 0
SearchRequest_offset_ge == 0

QueryInputs == {Str("q", 5), Str("q", 1001)}
SearchStatusInputs == {None, Some("active"), Some("bogus")}
LimitInputs == {None, Some(0), Some(1), Some(50), Some(1000), Some(1001)}
OffsetInputs == {None, Some(-1), Some(0), Some(7)}

(* limit accepted from 2 on (gt written for ge). *)
SearchRequestLimitValid_Exclusive(limit) ==
    \/ IsNone(limit)
    \/ Val(limit) > SearchRequest_limit_ge /\ Val(limit) <= SearchRequest_limit_le

(* limit: int = Field(default=50, ge=1, le=1000) *)
SearchRequestLimitValid(limit) ==
    \/ IsNone(limit)
    \/ Val(limit) >= SearchRequest_limit_ge /\ Val(limit) <= SearchRequest_limit_le

(* offset: int = Field(default=0, ge=0) *)
SearchRequestOffsetValid(offset) ==
    IsNone(offset) \/ Val(offset) >= SearchRequest_offset_ge

SearchRequestValid(query, status, limit, offset) ==
    /\ MaxLengthOk(query, SearchRequest_query_max_length)
    /\ NoteStatusValid(status)
    /\ SearchRequestLimitValid(limit)
    /\ SearchRequestOffsetValid(offset)

(* The instance a valid SearchRequest(...) call builds. *)
SearchRequestInit(query, status, limit, offset) ==
    [query |-> query, status |-> status,
     limit |-> IF IsNone(limit) THEN SearchRequest_limit_default ELSE Val(limit),
     offset |-> IF IsNone(offset) THEN SearchRequest_offset_default ELSE Val(offset)]

(* SearchRequest(query=..., status=..., limit=..., offset=...); nothing is
   stored. *)
BuildSearchRequest ==
    \E query \in QueryInputs, status \in SearchStatusInputs, limit \in LimitInputs,
       offset \in OffsetInputs :
        /\ last' = IF SearchRequestValid(query, status, limit, offset)
                   THEN [op |-> "SearchRequest", query |-> query, status |-> status,
                         limit |-> limit, offset |-> offset, outcome |-> "ok",
                         value |-> <<SearchRequestInit(query, status, limit, offset)>>]
                   ELSE [op |-> "SearchRequest", query |-> query, status |-> status,
                         limit |-> limit, offset |-> offset,
                         outcome |-> "ValidationError", value |-> << >>]
        /\ UNCHANGED <<strictColumns, folders, tags, notes, note_tags, note_connections,
                       ai_operations>>

(***************************************************************************)
(* The initial state: an empty database, on either kind of engine.         *)
(***************************************************************************)
Init ==
    /\ strictColumns \in BOOLEAN
    /\ folders = << >>
    /\ tags = << >>
    /\ notes = << >>
    /\ note_tags = << >>
    /\ note_connections = << >>
    /\ ai_operations = << >>
    /\ last = [op |-> "none", outcome |-> "ok"]

(***************************************************************************)
(* The folder hierarchy: creations and updates of folders.                 *)
(***************************************************************************)
NextFolders ==
    \/ CreateFolder(FolderNames, FolderRefs)
    \/ AddFolder(FolderNames, FolderRefs)
    \/ UpdateFolder

SpecFolders == Init /\ [][NextFolders]_vars

(***************************************************************************)
(* Named entities: creations of tags and of (top-level) folders, renames   *)
(* of tags.                                                                *)
(***************************************************************************)
NextNames ==
    \/ CreateFolder(FolderNames, LeftOut)
    \/ AddFolder(FolderNames, LeftOut)
    \/ CreateTag(TagNames)
    \/ AddTag(TagNames)
    \/ UpdateTag(TagNames)

SpecNames == Init /\ [][NextNames]_vars

(***************************************************************************)
(* Notes: creations and updates of notes, with the status and the title    *)
(* the caller gives.                                                       *)
(***************************************************************************)
NextNotes ==
    \/ CreateNote(MaxNotes, NoteTitles)
    \/ AddNote(MaxNotes, NoteTitles, StatusInputs, LeftOut)
    \/ UpdateNote(NoteTitles, StatusInputs)
    \/ ReloadNote

SpecNotes == Init /\ [][NextNotes]_vars

(***************************************************************************)
(* Note metadata: notes stored with the metadata the caller gives (or      *)
(* none), and read back.                                                   *)
(***************************************************************************)
NextMetadata ==
    \/ AddNote(MaxMetaNotes, PlainTitle, LeftOut, MetadataInputs)
    \/ ReloadNote

SpecMetadata == Init /\ [][NextMetadata]_vars

(***************************************************************************)
(* Tagging: notes and tags are stored, and tags are attached to notes.     *)
(***************************************************************************)
NextTagging ==
    \/ AddNote(MaxNotes, PlainTitle, LeftOut, LeftOut)
    \/ AddTag(ShortTagNames)
    \/ AttachTag

SpecTagging == Init /\ [][NextTagging]_vars

(***************************************************************************)
(* Connections: notes are stored and connected.                            *)
(***************************************************************************)
NextConnections ==
    \/ AddNote(MaxNotes, PlainTitle, LeftOut, LeftOut)
    \/ CreateNoteConnection
    \/ AddNoteConnection

SpecConnections == Init /\ [][NextConnections]_vars

(***************************************************************************)
(* AI operations: notes are stored and the outcomes of AI operations on    *)
(* them are recorded.                                                      *)
(***************************************************************************)
NextAIOperations ==
    \/ AddNote(MaxNotes, PlainTitle, LeftOut, LeftOut)
    \/ AddAIOperation

SpecAIOperations == Init /\ [][NextAIOperations]_vars

(***************************************************************************)
(* Search requests are built, one after the other.                         *)
(***************************************************************************)
NextSearch == BuildSearchRequest

SpecSearch == Init /\ [][NextSearch]_vars

(***************************************************************************)
(* Properties of the named entities (SpecNames).                           *)
(***************************************************************************)
Names(table) == {table[i].name : i \in 1..Len(table)}

NoSharedName(table) ==
    \A i, j \in 1..Len(table) : i # j => table[i].name # table[j].name

(* A step that tried to insert a tag under a name a stored tag has ends in an
   error and leaves the tags table as it was. *)
DuplicateTagRefused ==
    (last'.op \in {"CreateTag", "AddTag"} /\ last'.name \in Names(tags))
        => (last'.outcome # "ok" /\ tags' = tags)

(* A step that tried to rename a tag to the name of another stored tag ends in
   an error and leaves the tags table as it was. *)
DuplicateRenameRefused ==
    (/\ last'.op = "UpdateTag"
     /\ \E i \in 1..Len(tags) : tags[i].id # last'.id /\ tags[i].name = last'.name)
        => (last'.outcome # "ok" /\ tags' = tags)

(* C2, as stated: no two stored Tags share a name and no two stored Folders
   share a name.  Folder.name carries no unique constraint, so two folders
   named alike are both stored. *)
C2_NoSharedNames == NoSharedName(tags) /\ NoSharedName(folders)

(* C2, amended to tags: in every state no two stored Tags share a name, and
   creating a Tag (or renaming one) under a name another stored Tag has fails
   and changes nothing. *)
C2_TagNamesUnique ==
    /\ [](NoSharedName(tags))
    /\ [][DuplicateTagRefused /\ DuplicateRenameRefused]_vars

(* C2's case: a TagCreate under the name of a stored tag has just been refused
   by the unique constraint. *)
C2_DuplicateTagRefused ==
    /\ last.op = "CreateTag"
    /\ last.outcome = "IntegrityError"
    /\ last.name \in Names(tags)

(***************************************************************************)
(* Properties of the folder hierarchy (SpecFolders).                       *)
(***************************************************************************)
ParentIds(S) ==
    {Val(folders[i].parent_id) :
        i \in {k \in 1..Len(folders) : folders[k].id \in S /\ ~IsNone(folders[k].parent_id)}}

RECURSIVE AncestorsWithin(_, _)
AncestorsWithin(S, steps) ==
    IF steps = 0 THEN S ELSE AncestorsWithin(S \cup ParentIds(S), steps - 1)

(* The ids reached from folder id by following parent references. *)
Ancestors(id) == AncestorsWithin(ParentIds({id}), Len(folders))

(* C5: the folder hierarchy contains no cycle: following parent references
   from a folder never returns to it, and no folder is its own parent. *)
C5_HierarchyAcyclic ==
    \A i \in 1..Len(folders) : folders[i].id \notin Ancestors(folders[i].id)

ParentsStored ==
    \A i \in 1..Len(folders) :
        \/ folders[i].parent_id = << >>
        \/ \E j \in 1..Len(folders) : folders[j].id = folders[i].parent_id[1]

(* A create whose parent_id is neither a stored folder's id nor the id the new
   row itself gets fails and leaves the folders table as it was. *)
DanglingCreateRefused ==
    (/\ last'.op \in {"CreateFolder", "AddFolder"}
     /\ last'.parent_id # << >>
     /\ \A j \in 1..Len(folders) : folders[j].id # last'.parent_id[1]
     /\ last'.parent_id[1] # Len(folders) + 1)
        => (last'.outcome # "ok" /\ folders' = folders)

(* An update that gives a parent_id no stored folder has fails and leaves the
   folders table as it was. *)
DanglingUpdateRefused ==
    (/\ last'.op = "UpdateFolder"
     /\ "parent_id" \in last'.update.set
     /\ last'.update.parent_id # << >>
     /\ \A j \in 1..Len(folders) : folders[j].id # last'.update.parent_id[1])
        => (last'.outcome # "ok" /\ folders' = folders)

(* C6: in every state each Folder's parent_id, when present, is the id of a
   stored Folder, and a folder create or update whose parent_id names no
   folder is refused (a referential failure) and leaves the stored folders
   unchanged.  A row whose parent_id is its own id satisfies the foreign key. *)
C6_ParentReferencesExist ==
    /\ []ParentsStored
    /\ [][DanglingCreateRefused /\ DanglingUpdateRefused]_vars

(* C6's case: a FolderCreate naming a parent that is not stored has just been
   refused while other folders, one of them with a parent, are stored. *)
C6_DanglingParentRefused ==
    /\ last.op = "CreateFolder"
    /\ last.outcome = "IntegrityError"
    /\ last.parent_id # << >>
    /\ \E i \in 1..Len(folders) : folders[i].parent_id # << >>

(***************************************************************************)
(* Properties of notes (SpecNotes).                                        *)
(***************************************************************************)
(* C4: only active, archived and deleted are accepted as a Note status: a
   Note or NoteUpdate given any other string is rejected, every stored Note's
   status is one of the three, and a Note created without a status is
   active. *)
C4_StatusAlwaysValid ==
    /\ \A i \in 1..Len(notes) : notes[i].status \in {"active", "archived", "deleted"}
    /\ (/\ last.op \in {"AddNote", "UpdateNote"}
        /\ last.status # << >>
        /\ last.status[1] \notin {"active", "archived", "deleted"})
            => last.outcome # "ok"
    /\ (last.op \in {"AddNote", "CreateNote"} /\ last.status = << >> /\ last.outcome = "ok")
            => notes[Len(notes)].status = "active"

(* C9: a create or update whose data violates a length or enumeration
   constraint is reported as a validation failure, never reaches the
   persistence step, and leaves the stored notes within the constraints. *)
C9_ValidationBeforePersistence ==
    /\ \A i \in 1..Len(notes) :
          notes[i].title[2] <= 500 /\ notes[i].status \in {"active", "archived", "deleted"}
    /\ (/\ last.op \in {"AddNote", "CreateNote"}
        /\ \/ last.title[2] > 500
           \/ (last.status # << >> /\ last.status[1] \notin {"active", "archived", "deleted"}))
            => last.outcome = "ValidationError"
    /\ (/\ last.op = "UpdateNote"
        /\ \/ (last.title # << >> /\ last.title[1][2] > 500)
           \/ (last.status # << >> /\ last.status[1] \notin {"active", "archived", "deleted"}))
            => last.outcome = "ValidationError"

(***************************************************************************)
(* Properties of the metadata column (SpecMetadata).                       *)
(***************************************************************************)
(* A dict JSON holds as it is: text keys, values that are JSON values. *)
JsonNative(d) ==
    \A i \in 1..Len(d) : d[i][1][1] = "str" /\ d[i][2][1] \in {"str", "list"}

(* C10, as stated: for every mapping m, a Note stored with note_metadata = m
   reloads with a note_metadata equal to m.  A tuple comes back as a list and
   an int key as its text. *)
C10_EveryMappingRoundTrips ==
    (last.op = "ReloadNote" /\ last.given # << >>)
        => DictEq(last.note_metadata, last.given[1])

(* C10, amended to the mappings JSON holds: for every mapping m with text
   keys and JSON values, a Note stored with note_metadata = m reloads with a
   note_metadata equal to m; a Note stored without metadata reloads with an
   empty mapping. *)
C10_JsonMappingRoundTrips ==
    last.op = "ReloadNote" =>
        IF last.given = << >>
        THEN last.note_metadata = << >>
        ELSE JsonNative(last.given[1]) => DictEq(last.note_metadata, last.given[1])

(* C10's case: a note stored with a non-empty JSON mapping holding an array
   has been read back. *)
C10_MappingReloaded ==
    /\ last.op = "ReloadNote"
    /\ last.given # << >>
    /\ last.given[1] # << >>
    /\ JsonNative(last.given[1])
    /\ \E i \in 1..Len(last.given[1]) : last.given[1][i][2][1] = "list"
    /\ DictEq(last.note_metadata, last.given[1])

(***************************************************************************)
(* Properties of tagging (SpecTagging).                                    *)
(***************************************************************************)
NoSharedPair ==
    \A i, j \in 1..Len(note_tags) :
        i # j => ~(/\ note_tags[i].note_id = note_tags[j].note_id
                   /\ note_tags[i].tag_id = note_tags[j].tag_id)

(* A step that tried to attach a tag a note already carries ends in an error
   and leaves the association table as it was. *)
DuplicateAttachRefused ==
    (/\ last'.op = "AttachTag"
     /\ \E i \in 1..Len(note_tags) :
           note_tags[i].note_id = last'.note_id /\ note_tags[i].tag_id = last'.tag_id)
        => (last'.outcome # "ok" /\ note_tags' = note_tags)

(* C7: (note id, tag id) is the key of the Note-Tag association: whatever is
   attached, and however often, there is at most one NoteTag row for a pair. *)
C7_OnePairOneRow ==
    /\ []NoSharedPair
    /\ [][DuplicateAttachRefused]_vars

(* C7's case: attaching a tag a second time to the same note has just been
   refused, while one note carries two tags and one tag labels two notes. *)
C7_SecondAttachRefused ==
    /\ last.op = "AttachTag"
    /\ last.outcome = "IntegrityError"
    /\ \E i \in 1..Len(note_tags) :
          note_tags[i].note_id = last.note_id /\ note_tags[i].tag_id = last.tag_id
    /\ \E i, j \in 1..Len(note_tags) :
          note_tags[i].note_id = note_tags[j].note_id /\ note_tags[i].tag_id # note_tags[j].tag_id
    /\ \E i, j \in 1..Len(note_tags) :
          note_tags[i].tag_id = note_tags[j].tag_id /\ note_tags[i].note_id # note_tags[j].note_id

(***************************************************************************)
(* Properties of connections (SpecConnections).                            *)
(***************************************************************************)
(* C1: a NoteConnection, the entity as well as the NoteConnectionCreate, given
   a strength below 0.0 or above 1.0 is rejected, one given exactly 0.0 or 1.0
   between stored notes is accepted, and no stored NoteConnection has a
   strength outside [0, 1]. *)
C1_StrengthWithinUnitInterval ==
    /\ \A i \in 1..Len(note_connections) :
          note_connections[i].strength >= 0 /\ note_connections[i].strength <= 10
    /\ (/\ last.op \in {"CreateNoteConnection", "AddNoteConnection"}
        /\ last.strength # << >>
        /\ (last.strength[1] < 0 \/ last.strength[1] > 10))
            => last.outcome # "ok"
    /\ (/\ last.op \in {"CreateNoteConnection", "AddNoteConnection"}
        /\ last.strength \in {<<0>>, <<10>>}
        /\ last.source_note_id <= Len(notes)
        /\ last.target_note_id <= Len(notes))
            => last.outcome = "ok"

(***************************************************************************)
(* Properties of AI operation records (SpecAIOperations).                  *)
(***************************************************************************)
(* C8: recording an AIOperation of a stored note does not raise whatever its
   success flag and error_message are: the stored record keeps the success
   flag given (True when none is given) and the error_message, and its result
   is the mapping given, the empty mapping when none is given. *)
C8_FailureRecorded ==
    (/\ last.op = "AddAIOperation"
     /\ last.note_id <= Len(notes)
     /\ last.operation_type \in {"summarize", "generate_ideas", "suggest_connections",
                                  "answer_question"})
        => /\ last.outcome = "ok"
           /\ LET row == ai_operations[Len(ai_operations)]
              IN  /\ row.success = (IF last.success = << >> THEN TRUE ELSE last.success[1])
                  /\ row.error_message = last.error_message
                  /\ JsonLoads(row.result) =
                        (IF last.result = << >> THEN << >> ELSE last.result[1])

(* C8's case: a failed operation with an error message and no result has just
   been recorded. *)
C8_FailedOperationStored ==
    /\ last.op = "AddAIOperation"
    /\ last.success = <<FALSE>>
    /\ last.error_message # << >>
    /\ last.result = << >>
    /\ last.outcome = "ok"
    /\ ai_operations[Len(ai_operations)].success = FALSE
    /\ ai_operations[Len(ai_operations)].result = << >>

(***************************************************************************)
(* Properties of search requests (SpecSearch).                             *)
(***************************************************************************)
(* C3: a SearchRequest with a limit below 1 or above 1000, or an offset below
   0, is rejected; with limit 1 or 1000 and offset 0 (the other fields valid)
   it is accepted; a limit or offset left out is 50 or 0. *)
C3_SearchRequestBounds ==
    last.op = "SearchRequest" =>
        /\ (last.limit # << >> /\ (last.limit[1] < 1 \/ last.limit[1] > 1000))
              => last.outcome = "ValidationError"
        /\ (last.offset # << >> /\ last.offset[1] < 0)
              => last.outcome = "ValidationError"
        /\ (/\ last.query[2] <= 1000
            /\ last.status \in {<< >>, <<"active">>, <<"archived">>, <<"deleted">>}
            /\ last.limit \in {<< >>, <<1>>, <<1000>>}
            /\ last.offset \in {<< >>, <<0>>})
              => last.outcome = "ok"
        /\ (last.outcome = "ok" /\ last.limit = << >>) => last.value[1].limit = 50
        /\ (last.outcome = "ok" /\ last.offset = << >>) => last.value[1].offset = 0
        /\ (last.outcome = "ok" /\ last.limit # << >>) => last.value[1].limit = last.limit[1]

(* C3's case: a request with limit 1000 and no offset has just been accepted,
   with offset 0. *)
C3_BoundaryAccepted ==
    /\ last.op = "SearchRequest"
    /\ last.limit = <<1000>>
    /\ last.offset = << >>
    /\ last.outcome = "ok"
    /\ last.value[1].offset = 0

====
